---- MODULE Spec2Model ----
EXTENDS Integers, Sequences, FiniteSets, TLC

(***************************************************************************)
(* Real arithmetic.  A Real of the program (a double) is modelled as a     *)
(* decimal floating-point number <<m, e>> standing for m * 10^e, with a    *)
(* mantissa of eight digits (Lo <= |m| < Hi) and results truncated toward  *)
(* zero.  Zero is <<0, 0>>.  The three non-finite values of IEEE           *)
(* arithmetic are kept: NaN, +Inf and -Inf.  The exponent is unbounded, so *)
(* an infinity arises only from a division by zero.                        *)
(***************************************************************************)
Lo == 10 * 1000 * 1000
Hi == 10 * Lo
Half == 10 * 1000
Zero == <<0, 0>>
NaN == <<0, 1>>
PInf == <<1, 0>>
NInf == <<0 - 1, 0>>
IsInf(x) == x = PInf \/ x = NInf
IsFin(x) == x # NaN /\ x # PInf /\ x # NInf
AbsI(n) == IF n < 0 THEN 0 - n ELSE n
SgnI(n) == IF n < 0 THEN 0 - 1 ELSE IF n > 0 THEN 1 ELSE 0
\* integer division truncating toward zero
Quot(n, k) == IF n < 0 THEN 0 - ((0 - n) \div k) ELSE n \div k
RECURSIVE Pow10(_)
Pow10(k) == IF k = 0 THEN 1 ELSE 10 * Pow10(k - 1)

\* the normalised number of value n * 10^e, for an integer n
RECURSIVE Norm(_, _)
Norm(n, e) ==
  IF n = 0 THEN Zero
  ELSE IF AbsI(n) >= Hi THEN Norm(Quot(n, 10), e + 1)
  ELSE IF AbsI(n) < Lo THEN Norm(n * 10, e - 1)
  ELSE <<n, e>>
R(n) == Norm(n, 0)

Neg(x) == IF x = NaN THEN NaN ELSE <<0 - x[1], x[2]>>
Abs(x) == IF x = NaN THEN NaN ELSE <<AbsI(x[1]), x[2]>>

\* the sum of two finite non-zero numbers, b the one of larger exponent
AddFin(b, c) ==
  LET k == b[2] - c[2]
  IN  IF k >= 10 THEN b
      ELSE Norm(b[1] * 10 + Quot(c[1] * 10, Pow10(k)), b[2] - 1)
Add(x, y) ==
  IF x = NaN \/ y = NaN THEN NaN
  ELSE IF IsInf(x) THEN (IF IsInf(y) /\ y # x THEN NaN ELSE x)
  ELSE IF IsInf(y) THEN y
  ELSE IF x = Zero THEN y
  ELSE IF y = Zero THEN x
  ELSE IF x[2] >= y[2] THEN AddFin(x, y)
  ELSE AddFin(y, x)
Sub(x, y) == Add(x, Neg(y))

\* comparisons: every comparison with NaN is false
Lt(x, y) ==
  /\ x # NaN /\ y # NaN /\ x # y
  /\ Sub(x, y)[1] < 0
Le(x, y) == x # NaN /\ y # NaN /\ (x = y \/ Sub(x, y)[1] < 0)
Gt(x, y) == Lt(y, x)
Ge(x, y) == Le(y, x)

\* the leading digits of p * q: p * q / Hi (MulTop) and p * q / Lo (MulTop10)
MulTop10(p, q) ==
  LET ph == p \div Half
      pl == p % Half
      qh == q \div Half
      ql == q % Half
  IN  ph * qh * 10 + (ph * ql + pl * qh + (pl * ql) \div Half) \div 1000
MulTop(p, q) ==
  LET ph == p \div Half
      pl == p % Half
      qh == q \div Half
      ql == q % Half
  IN  ph * qh + (ph * ql + pl * qh + (pl * ql) \div Half) \div Half
Mul(x, y) ==
  IF x = NaN \/ y = NaN THEN NaN
  ELSE IF IsInf(x) \/ IsInf(y)
       THEN (IF x = Zero \/ y = Zero THEN NaN
             ELSE IF SgnI(x[1]) = SgnI(y[1]) THEN PInf ELSE NInf)
  ELSE IF x = Zero \/ y = Zero THEN Zero
  ELSE Norm(SgnI(x[1]) * SgnI(y[1]) * MulTop10(AbsI(x[1]), AbsI(y[1])),
            x[2] + y[2] + 7)

RECURSIVE LongDiv(_, _, _, _)
LongDiv(r, q, n, acc) ==
  IF n = 0 THEN acc
  ELSE LongDiv((r * 10) % q, q, n - 1, acc * 10 + (r * 10) \div q)
Div(x, y) ==
  IF x = NaN \/ y = NaN THEN NaN
  ELSE IF IsInf(x) THEN (IF IsInf(y) THEN NaN
                         ELSE IF y[1] < 0 THEN Neg(x) ELSE x)
  ELSE IF IsInf(y) THEN Zero
  ELSE IF y = Zero THEN (IF x = Zero THEN NaN
                         ELSE IF x[1] > 0 THEN PInf ELSE NInf)
  ELSE IF x = Zero THEN Zero
  ELSE LET p == AbsI(x[1])
           q == AbsI(y[1])
       IN  Norm(SgnI(x[1]) * SgnI(y[1]) * LongDiv(p % q, q, 8, p \div q),
                x[2] - y[2] - 8)
Frac(n, m) == Div(R(n), R(m))
One == R(1)
Two == R(2)
Three == R(3)
Four == R(4)
OneHalf == Frac(1, 2)
Six == R(6)

\* std::min(a, b) is (b < a) ? b : a and std::max(a, b) is (a < b) ? b : a
Min(x, y) == IF Lt(y, x) THEN y ELSE x
Max(x, y) == IF Lt(x, y) THEN y ELSE x
SQR(x) == Mul(x, x)

\* sqrt: the largest s with s * s <= n * Hi, by bisection
RECURSIVE SqrtBis(_, _, _)
SqrtBis(n, lo, hi) ==
  IF hi - lo <= 1 THEN lo
  ELSE LET mid == (lo + hi) \div 2
       IN  IF MulTop(mid, mid) <= n THEN SqrtBis(n, mid, hi)
           ELSE SqrtBis(n, lo, mid)
Sqrt(x) ==
  IF x = NaN \/ x = NInf THEN NaN
  ELSE IF x = PInf \/ x = Zero THEN x
  ELSE IF x[1] < 0 THEN NaN
  ELSE LET odd == x[2] % 2 = 1
           n == IF odd THEN x[1] * 10 ELSE x[1]
           e == IF odd THEN x[2] - 1 ELSE x[2]
       IN  Norm(SqrtBis(n, 3 * Lo, 32 * Lo), (e - 8) \div 2)

\* exp, cos, log and atan of <cmath>, by their series
RECURSIVE ExpSer(_, _)
ExpSer(x, n) ==
  IF n > 14 THEN One ELSE Add(One, Mul(Div(x, R(n)), ExpSer(x, n + 1)))
Exp(x) ==
  IF x = NaN THEN NaN
  ELSE IF x = PInf THEN PInf
  ELSE IF x = NInf THEN Zero
  ELSE ExpSer(x, 1)

RECURSIVE CosSer(_, _)
CosSer(xx, n) ==
  IF n > 10 THEN One
  ELSE Sub(One, Mul(Div(xx, R((2 * n - 1) * (2 * n))), CosSer(xx, n + 1)))
Cos(x) == IF ~IsFin(x) THEN NaN ELSE CosSer(Mul(x, x), 1)

Ln2 == Norm(69314718, 0 - 8)
RECURSIVE AtanhSer(_, _)
AtanhSer(yy, n) ==
  IF n > 8 THEN Div(One, R(2 * n + 1))
  ELSE Add(Div(One, R(2 * n + 1)), Mul(yy, AtanhSer(yy, n + 1)))
RECURSIVE LogRed(_)
LogRed(x) ==
  IF Gt(x, Two) THEN Add(LogRed(Div(x, Two)), Ln2)
  ELSE IF Lt(x, OneHalf) THEN Sub(LogRed(Mul(x, Two)), Ln2)
  ELSE LET y == Div(Sub(x, One), Add(x, One))
       IN  Mul(Two, Mul(y, AtanhSer(Mul(y, y), 0)))
Log(x) ==
  IF x = NaN \/ x = NInf THEN NaN
  ELSE IF x = Zero THEN NInf
  ELSE IF x = PInf THEN PInf
  ELSE IF x[1] < 0 THEN NaN
  ELSE LogRed(x)

PiHalf == Norm(15707963, 0 - 7)
RECURSIVE AtanSer(_, _)
AtanSer(yy, n) ==
  IF n > 9 THEN Div(One, R(2 * n + 1))
  ELSE Sub(Div(One, R(2 * n + 1)), Mul(yy, AtanSer(yy, n + 1)))
AtanSmall(y) == Mul(y, AtanSer(Mul(y, y), 0))
RECURSIVE AtanPos(_)
AtanPos(x) ==
  IF Gt(x, One) THEN Sub(PiHalf, AtanPos(Div(One, x)))
  ELSE IF Gt(x, Frac(2, 5))
       THEN Add(Div(PiHalf, Two), AtanSmall(Div(Sub(x, One), Add(x, One))))
  ELSE AtanSmall(x)
Atan(x) ==
  IF x = NaN THEN NaN
  ELSE IF x = PInf THEN PiHalf
  ELSE IF x = NInf THEN Neg(PiHalf)
  ELSE IF x[1] < 0 THEN Neg(AtanPos(Neg(x)))
  ELSE AtanPos(x)

(***************************************************************************)
(* State.  gl holds the file-scope parameters set by InitUserMeshData and  *)
(* pc the position of the function that is running.                        *)
(*   r0_r_z: x1, x3, r1, r2, r3, diff, r0 are its arguments, locals and    *)
(*     return value; iter counts the passes of its loop, up to MaxIter.    *)
(*   flux_intg: fx is its argument and aphir its local and return value.   *)
(*   JetInnerX3: call holds il, iu, jl, ju, kl, ku, ngh and the build flag *)
(*     MAGNETIC_FIELDS_ENABLED; pco, prim and b are the arrays it is       *)
(*     handed and bc its local array.                                      *)
(*   RefinementCondition: w and bcc are the arrays of the block, todo the  *)
(*     cells the loops have yet to visit, maxsig its local and ret the     *)
(*     value it returns.                                                   *)
(***************************************************************************)
VARIABLES gl, pc, x1, x3, r1, r2, r3, diff, r0, iter, fx, aphir,
          call, pco, prim, b, bc, w, bcc, todo, maxsig, ret

solveVars == <<x1, x3, r1, r2, r3, diff, r0, iter>>
fluxVars == <<fx, aphir>>
fillVars == <<call, pco, prim, b, bc>>
refVars == <<w, bcc, todo, maxsig, ret>>
vars == <<gl, pc, solveVars, fluxVars, fillVars, refVars>>

\* the variables of a function that is not running
SolveIdle ==
  /\ x1 = Zero /\ x3 = Zero /\ r1 = Zero /\ r2 = Zero /\ r3 = Zero
  /\ diff = Zero /\ r0 = Zero /\ iter = 0
FluxIdle == fx = Zero /\ aphir = Zero
FillIdle == call = <<>> /\ pco = <<>> /\ prim = <<>> /\ b = <<>> /\ bc = <<>>
RefIdle == w = <<>> /\ bcc = <<>> /\ todo = {} /\ maxsig = Zero /\ ret = 0

\* the file-scope parameters (lines 44-48)
d_amb == gl.d_amb
p_amb == gl.p_amb
vx_amb == gl.vx_amb
vy_amb == gl.vy_amb
vz_amb == gl.vz_amb
d_jet == gl.d_jet
p_jet == gl.p_jet
vx_jet == gl.vx_jet
vy_jet == gl.vy_jet
vz_jet == gl.vz_jet
b_0 == gl.b_0
z_0 == gl.z_0
r_jet == gl.r_jet
dr_jet == gl.dr_jet
a == gl.a
d == gl.d
mang == gl.mang
dang == gl.dang
gad == gl.gad
gam_add == gl.gam_add
x1min == gl.x1min
x1rat == gl.x1rat
atw_jet == gl.atw_jet
atw_amb == gl.atw_amb
hg_amb == gl.hg_amb
hg_jet == gl.hg_jet
rang_jet == gl.rang_jet
rang_amb == gl.rang_amb
phang_jet == gl.phang_jet
phang_amb == gl.phang_amb

\* sqrt(1.+vx*vx+vy*vy+vz*vz)
Lorentz(vx, vy, vz) == Sqrt(Add(Add(Add(One, SQR(vx)), SQR(vy)), SQR(vz)))

\* Mesh::InitUserMeshData: pin is the parameter file and the mesh size
InitUserMeshData(pin) ==
  LET gamma_amb == Lorentz(pin.vx, pin.vy, pin.vz)
      gamma_jet == Lorentz(pin.vxjet, pin.vyjet, pin.vzjet)
      gadd == Div(pin.gamma, Sub(pin.gamma, One))
  IN  [d_amb |-> pin.d, p_amb |-> pin.p,
       vx_amb |-> pin.vx, vy_amb |-> pin.vy, vz_amb |-> pin.vz,
       d_jet |-> pin.djet, p_jet |-> pin.pjet,
       vx_jet |-> pin.vxjet, vy_jet |-> pin.vyjet, vz_jet |-> pin.vzjet,
       b_0 |-> pin.b0, z_0 |-> pin.z0,
       r_jet |-> pin.rjet, dr_jet |-> pin.drjet,
       x1min |-> pin.x1min, x1rat |-> pin.x1rat,
       mang |-> pin.mang, dang |-> pin.dang,
       gad |-> pin.gamma, gam_add |-> gadd,
       atw_amb |-> Mul(Mul(gamma_amb, gamma_amb), Add(pin.d, Mul(gadd, pin.p))),
       hg_amb |-> Mul(Add(One, Div(Mul(gadd, pin.p), pin.d)), gamma_amb),
       rang_amb |-> Div(pin.vx, pin.vz),
       phang_amb |-> Div(pin.vy, pin.vz),
       atw_jet |-> Mul(Mul(gamma_jet, gamma_jet), Add(pin.djet, Mul(gadd, pin.pjet))),
       hg_jet |-> Mul(Add(One, Div(Mul(gadd, pin.pjet), pin.djet)), gamma_jet),
       rang_jet |-> Div(pin.vxjet, pin.vzjet),
       phang_jet |-> Div(pin.vyjet, pin.vzjet),
       a |-> Div(pin.rjet, Two),
       d |-> Div(One, Mul(Mul(Mul(Four, pin.drjet), pin.drjet), pin.drjet))]

\* step function approximation
SmoothStep(x) ==
  LET modx == Max(Min(x, One), Neg(One))
  IN  Sub(OneHalf, Div(Mul(modx, Sub(Three, Mul(modx, modx))), Four))

rang(xx) ==
  Div(Mul(Add(Mul(Sub(rang_jet, rang_amb),
                  SmoothStep(Div(Sub(xx, r_jet), dr_jet))),
              rang_amb),
          Sub(xx, x1min)),
      r_jet)

\* std::exp(-x3/z_0), and f with that value given
ExpZ(xx3) == Exp(Div(Neg(xx3), z_0))
fz(r_0, xx1, ez) == Sub(Add(r_0, Mul(Mul(rang(r_0), z_0), Sub(One, ez))), xx1)
f(r_0, xx1, xx3) == fz(r_0, xx1, ExpZ(xx3))

\* aphi for the first section
fintg1(xx) == Mul(Mul(b_0, Div(Mul(a, a), Two)), Log(Add(Mul(a, a), Mul(xx, xx))))

\* aphi for the second section
fintg2(xx) ==
  LET aa == Mul(a, a)
      dd == Mul(dr_jet, dr_jet)
      rr == Mul(r_jet, r_jet)
      poly == Mul(xx, Add(Sub(Add(Sub(Mul(R(0 - 6), aa), Mul(R(18), dd)),
                                  Mul(R(18), rr)),
                              Mul(Mul(R(9), r_jet), xx)),
                          Mul(Mul(Two, xx), xx)))
      arct == Mul(Mul(Mul(Six, a), Sub(Add(aa, Mul(Three, dd)), Mul(Three, rr))),
                  Atan(Div(xx, a)))
      logt == Mul(Sub(Add(Add(Mul(Mul(R(9), r_jet), aa),
                              Mul(Mul(Six, dd), dr_jet)),
                          Mul(Mul(R(9), r_jet), dd)),
                      Mul(Mul(Three, rr), r_jet)),
                  Log(Add(aa, Mul(xx, xx))))
  IN  Mul(Mul(b_0, Div(Mul(Mul(d, a), a), Six)), Add(Add(poly, arct), logt))

\* the three sections of flux_intg
FluxA(xx) == Sub(fintg1(xx), fintg1(x1min))
\* mutant of FluxB: the first section joined at r_jet
FluxB_join(xx) ==
  Sub(Add(Sub(fintg2(xx), fintg2(Sub(r_jet, dr_jet))), fintg1(r_jet)),
      fintg1(x1min))
FluxB(xx) ==
  Sub(Add(Sub(fintg2(xx), fintg2(Sub(r_jet, dr_jet))), fintg1(Sub(r_jet, dr_jet))),
      fintg1(x1min))
FluxC ==
  Sub(Add(Sub(fintg2(Add(r_jet, dr_jet)), fintg2(Sub(r_jet, dr_jet))),
          fintg1(Sub(r_jet, dr_jet))),
      fintg1(x1min))
flux_intg(xx) ==
  IF Lt(xx, Sub(r_jet, dr_jet)) THEN FluxA(xx)
  ELSE IF Ge(xx, Sub(r_jet, dr_jet)) /\ Lt(xx, Add(r_jet, dr_jet)) THEN FluxB(xx)
  ELSE FluxC

\* the tolerances of r0_r_z: 1e-5 on |f| and eps = 1e-4 on the bracket width
TolF == Frac(1, 100000)
eps == Frac(1, 10000)

\* mutant of InMapping: the band taken twice as wide
InMapping_wide(xx1) ==
  Lt(xx1, Add(r_jet, Mul(Two, dr_jet))) /\ Gt(xx1, x1min)
\* r0_r_z, line 481: the mapping regime
InMapping(xx1) == Lt(xx1, Add(r_jet, dr_jet)) /\ Gt(xx1, x1min)

\* mutant of SecantStep: the step taken with the wrong sign
SecantStep_sign(ra, rb, f1, f2) ==
  Add(ra, Div(Mul(f1, Sub(rb, ra)), Sub(f2, f1)))
\* r0_r_z, line 494: the candidate r3, with f1 = f(r1) and f2 = f(r2)
SecantStep(ra, rb, f1, f2) ==
  Sub(ra, Div(Mul(f1, Sub(rb, ra)), Sub(f2, f1)))

\* mutant of Break: the loop left at a hundred times the bracket tolerance
Break_wide(f3) == Lt(Abs(f3), Mul(R(100), eps))
\* r0_r_z, line 497, with f3 = f(r3)
Break(f3) == Lt(Abs(f3), TolF)

\* r0_r_z, lines 495-505: diff, the break and the new bracket
LoopUpdate(ra, rb, f1, n3, f3) ==
  [r3 |-> n3, diff |-> Abs(Sub(ra, rb)), brk |-> Break(f3),
   r1 |-> IF Break(f3) \/ Lt(Mul(f1, f3), Zero) THEN ra ELSE n3,
   r2 |-> IF ~Break(f3) /\ Lt(Mul(f1, f3), Zero) THEN n3 ELSE rb]
LoopCandidate(ra, rb, xx1, ez, f1, n3) ==
  LoopUpdate(ra, rb, f1, n3, fz(n3, xx1, ez))
LoopSecant(ra, rb, xx1, ez, f1, f2) ==
  LoopCandidate(ra, rb, xx1, ez, f1, SecantStep(ra, rb, f1, f2))
\* r0_r_z, lines 494-505: one pass of the loop body from the bracket (ra, rb);
\* ez is the value of std::exp(-x3/z_0) that every call of f computes
LoopBody(ra, rb, xx1, ez) ==
  LoopSecant(ra, rb, xx1, ez, fz(ra, xx1, ez), fz(rb, xx1, ez))

\* r0_r_z, lines 493-507: the loop, run to its end; n is the result of a pass
RECURSIVE SolveLoop(_, _, _, _, _, _)
SolveNext(n, xx1, ez) ==
  IF n.brk THEN n.r3 ELSE SolveLoop(n.r1, n.r2, n.r3, n.diff, xx1, ez)
SolveLoop(ra, rb, rc, df, xx1, ez) ==
  IF ~Gt(df, eps) THEN rc ELSE SolveNext(LoopBody(ra, rb, xx1, ez), xx1, ez)

\* r0_r_z, lines 483-507: the mapping regime
RootSolve(xx1, ez) ==
  IF Lt(Abs(fz(x1min, xx1, ez)), TolF) THEN x1min
  ELSE IF Lt(Abs(fz(Add(r_jet, dr_jet), xx1, ez)), TolF) THEN Add(r_jet, dr_jet)
  ELSE SolveLoop(x1min, Add(r_jet, dr_jet), Zero, One, xx1, ez)
\* r0_r_z as one call
r0_r_z(xx1, xx3) ==
  IF InMapping(xx1) THEN RootSolve(xx1, ExpZ(xx3))
  ELSE IF Le(xx1, x1min) THEN x1min
  ELSE xx1

\* calculates the value of Aphi based on location
A2(xx1, xx3) == Div(flux_intg(r0_r_z(xx1, xx3)), xx1)

(***************************************************************************)
(* The parameter files and the sample points the model draws from.         *)
(***************************************************************************)
MaxR == 12
MaxZ == 3
MaxIter == 60

\* the boundary scenario of the specification: ambient medium at rest
BasePin ==
  [d |-> One, p |-> Frac(1, 100), vx |-> Zero, vy |-> Zero, vz |-> Zero,
   djet |-> Frac(1, 10), pjet |-> Frac(1, 100),
   vxjet |-> Zero, vyjet |-> Zero, vzjet |-> R(5),
   b0 |-> One, z0 |-> One, rjet |-> One, drjet |-> Frac(1, 10),
   mang |-> Two, dang |-> Zero, gamma |-> Frac(5, 3),
   x1min |-> Zero, x1rat |-> One]

SolvePins ==
  {[BasePin EXCEPT !.x1min = xm, !.vx = va[1], !.vz = va[2], !.vxjet = vj] :
     xm \in {Zero, Frac(1, 4), Frac(3, 2)},
     va \in {<<Zero, Zero>>, <<Zero, Frac(1, 10)>>, <<Frac(1, 10), Frac(1, 10)>>},
     vj \in {Zero, One}}
Radii == {Frac(i, 8) : i \in 0 .. MaxR}
Heights == {Frac(k, 4) : k \in (0 - MaxZ) .. MaxZ}

(***************************************************************************)
(* One call of r0_r_z(x1, x3), a step at a time.                           *)
(***************************************************************************)
InitSolve ==
  /\ \E pin \in SolvePins : gl = InitUserMeshData(pin)
  /\ x1 \in Radii
  /\ x3 \in Heights
  /\ r1 = Zero /\ r2 = Zero /\ r3 = Zero /\ diff = Zero /\ r0 = Zero
  /\ pc = "call"
  /\ iter = 0
  /\ FluxIdle /\ FillIdle /\ RefIdle

\* lines 481-492: the mapping regime; the bracket and the two early returns
SolveEnter ==
  /\ pc = "call"
  /\ InMapping(x1)
  /\ r1' = x1min
  /\ r2' = Add(r_jet, dr_jet)
  /\ diff' = One
  /\ IF Lt(Abs(f(x1min, x1, x3)), TolF)
       THEN r0' = x1min /\ pc' = "done"
     ELSE IF Lt(Abs(f(Add(r_jet, dr_jet), x1, x3)), TolF)
       THEN r0' = Add(r_jet, dr_jet) /\ pc' = "done"
     ELSE r0' = r0 /\ pc' = "loop"
  /\ UNCHANGED <<gl, x1, x3, r3, iter, fluxVars, fillVars, refVars>>

\* lines 512-515: at or inside the inner edge
ReturnInner ==
  /\ pc = "call"
  /\ ~InMapping(x1)
  /\ Le(x1, x1min)
  /\ r0' = x1min
  /\ pc' = "done"
  /\ UNCHANGED <<gl, x1, x3, r1, r2, r3, diff, iter, fluxVars, fillVars, refVars>>

\* lines 517-520: everything else is returned unchanged
ReturnIdentity ==
  /\ pc = "call"
  /\ ~InMapping(x1)
  /\ ~Le(x1, x1min)
  /\ r0' = x1
  /\ pc' = "done"
  /\ UNCHANGED <<gl, x1, x3, r1, r2, r3, diff, iter, fluxVars, fillVars, refVars>>

\* lines 493-506: one pass of the loop; the break leaves through line 507
LoopStep ==
  /\ pc = "loop"
  /\ Gt(diff, eps)
  /\ \E n \in {LoopBody(r1, r2, x1, ExpZ(x3))} :
       /\ r3' = n.r3
       /\ diff' = n.diff
       /\ r1' = n.r1
       /\ r2' = n.r2
       /\ IF n.brk THEN r0' = n.r3 /\ pc' = "done"
          ELSE r0' = r0 /\ pc' = "loop"
  /\ iter' = IF iter < MaxIter THEN iter + 1 ELSE iter
  /\ UNCHANGED <<gl, x1, x3, fluxVars, fillVars, refVars>>

\* lines 493, 507: the loop condition fails
LoopExit ==
  /\ pc = "loop"
  /\ ~Gt(diff, eps)
  /\ r0' = r3
  /\ pc' = "done"
  /\ UNCHANGED <<gl, x1, x3, r1, r2, r3, diff, iter, fluxVars, fillVars, refVars>>

NextSolve == SolveEnter \/ ReturnInner \/ ReturnIdentity \/ LoopStep \/ LoopExit

SpecSolve == InitSolve /\ [][NextSolve]_vars

\* f has opposite signs at the two ends of the initial bracket
WellPosed == Lt(Mul(f(x1min, x1, x3), f(Add(r_jet, dr_jet), x1, x3)), Zero)
\* no line of the root-solve has run
NotSolved == iter = 0 /\ diff = Zero
InBracket(r) == Ge(r, x1min) /\ Le(r, Add(r_jet, dr_jet))

\* C1 as stated: for every r >= r_jet + dr_jet, every z and every setting of
\* the parameters, r0_r_z(r, z) returns r without running the root-solve.
C1_AnyParams ==
  (pc = "done" /\ Ge(x1, Add(r_jet, dr_jet))) => (r0 = x1 /\ NotSolved)

\* C1 amended: for every r >= r_jet + dr_jet that lies above the inner edge
\* x1min, and every z, r0_r_z(r, z) returns r without running the root-solve.
C1_IdentityOutside ==
  (pc = "done" /\ Ge(x1, Add(r_jet, dr_jet)) /\ Gt(x1, x1min))
    => (r0 = x1 /\ NotSolved)
C1_Witness ==
  pc = "done" /\ Ge(x1, Add(r_jet, dr_jet)) /\ Gt(x1, x1min) /\ r0 = x1 /\ x3 # Zero

C3_Terminates ==
  (InMapping(x1) /\ WellPosed)
    => /\ iter < MaxIter
       /\ (pc = "done" /\ iter > 0)
            => (Lt(Abs(f(r3, x1, x3)), TolF) \/ Le(diff, eps))
C3_Witness ==
  pc = "done" /\ WellPosed /\ iter >= 3 /\ Lt(Abs(f(r3, x1, x3)), TolF)

(***************************************************************************)
(* One call of flux_intg(fx).                                              *)
(***************************************************************************)
FluxPins ==
  {[BasePin EXCEPT !.b0 = bb, !.rjet = rj, !.drjet = dr, !.x1min = xm] :
     bb \in {One, Two}, rj \in {One, Two},
     dr \in {Frac(1, 10), Frac(1, 4)}, xm \in {Zero, Frac(1, 4)}}

InitFlux ==
  /\ \E pin \in FluxPins : gl = InitUserMeshData(pin)
  /\ fx \in Radii \cup {Sub(r_jet, dr_jet), Add(r_jet, dr_jet)}
  /\ aphir = Zero
  /\ pc = "call"
  /\ SolveIdle /\ FillIdle /\ RefIdle

\* lines 457-459
FluxFirst ==
  /\ pc = "call"
  /\ Lt(fx, Sub(r_jet, dr_jet))
  /\ aphir' = flux_intg(fx)
  /\ pc' = "done"
  /\ UNCHANGED <<gl, fx, solveVars, fillVars, refVars>>

\* lines 460-461
FluxSecond ==
  /\ pc = "call"
  /\ ~Lt(fx, Sub(r_jet, dr_jet))
  /\ Ge(fx, Sub(r_jet, dr_jet)) /\ Lt(fx, Add(r_jet, dr_jet))
  /\ aphir' = flux_intg(fx)
  /\ pc' = "done"
  /\ UNCHANGED <<gl, fx, solveVars, fillVars, refVars>>

\* lines 462-464
FluxThird ==
  /\ pc = "call"
  /\ ~Lt(fx, Sub(r_jet, dr_jet))
  /\ ~(Ge(fx, Sub(r_jet, dr_jet)) /\ Lt(fx, Add(r_jet, dr_jet)))
  /\ aphir' = flux_intg(fx)
  /\ pc' = "done"
  /\ UNCHANGED <<gl, fx, solveVars, fillVars, refVars>>

NextFlux == FluxFirst \/ FluxSecond \/ FluxThird

SpecFlux == InitFlux /\ [][NextFlux]_vars

\* C5: at r_jet - dr_jet flux_intg returns fintg1(r0) - fintg1(x1min), the
\* expression of the first section, and at r_jet + dr_jet it returns the
\* expression of the second section evaluated at r_jet + dr_jet.
C5_Matches ==
  pc = "done"
    => /\ fx = Sub(r_jet, dr_jet) => aphir = Sub(fintg1(fx), fintg1(x1min))
       /\ fx = Add(r_jet, dr_jet) => aphir = FluxB(fx)
C5_Witness ==
  /\ pc = "done" /\ fx = Sub(r_jet, dr_jet) /\ Gt(x1min, Zero)
  /\ aphir = Sub(fintg1(fx), fintg1(x1min)) /\ IsFin(aphir) /\ aphir # Zero

(***************************************************************************)
(* One call of RefinementCondition on a block of NCell interior cells.     *)
(* The loops of lines 550-552 visit the cells in index order; here any     *)
(* order is allowed, that one included.                                    *)
(***************************************************************************)
NCell == 3

Cells == 1 .. NCell
FieldVals ==
  {<<Zero, Zero, Zero>>, <<Frac(1, 10), Zero, Zero>>,
   <<Frac(1, 20), Frac(1, 20), Frac(1, 20)>>}
DensVals == {One, Frac(1, 10)}

\* lines 553-554
Sigma_M(c) ==
  LET Bsqc == Add(Add(Mul(bcc[c][1], bcc[c][1]), Mul(bcc[c][2], bcc[c][2])),
                  Mul(bcc[c][3], bcc[c][3]))
  IN  Div(Bsqc, w[c])

\* mutant of RefineFlag: the threshold included
RefineFlag_incl(ms) == IF Ge(ms, Frac(1, 100)) THEN 1 ELSE 0
\* lines 565-567
RefineFlag(ms) == IF Gt(ms, Frac(1, 100)) THEN 1 ELSE 0

InitRefine ==
  /\ gl = InitUserMeshData(BasePin)
  /\ w \in [Cells -> DensVals]
  /\ bcc \in [Cells -> FieldVals]
  /\ todo = Cells
  /\ maxsig = Zero
  /\ ret = 0
  /\ pc = "call"
  /\ SolveIdle /\ FluxIdle /\ FillIdle

\* lines 553-558: the loop body for one cell
RefineVisit ==
  /\ pc = "call"
  /\ \E c \in todo :
       /\ maxsig' = IF Lt(maxsig, Sigma_M(c)) THEN Sigma_M(c) ELSE maxsig
       /\ todo' = todo \ {c}
  /\ UNCHANGED <<gl, pc, w, bcc, ret, solveVars, fluxVars, fillVars>>

\* lines 565-567
RefineReturn ==
  /\ pc = "call"
  /\ todo = {}
  /\ ret' = RefineFlag(maxsig)
  /\ pc' = "done"
  /\ UNCHANGED <<gl, w, bcc, todo, maxsig, solveVars, fluxVars, fillVars>>

NextRefine == RefineVisit \/ RefineReturn

SpecRefine == InitRefine /\ [][NextRefine]_vars

NX1 == 4
NX2 == 2
NGH == 2

Dx == OneHalf
Dz == Frac(1, 4)
Dphi == Frac(3, 4)

il == call.il
iu == call.iu
jl == call.jl
ju == call.ju
kl == call.kl
ku == call.ku
ngh == call.ngh

RECURSIVE RatPow(_, _)
RatPow(q, n) == IF n = 0 THEN One ELSE Mul(q, RatPow(q, n - 1))
RECURSIVE FaceAt(_, _, _, _)
FaceAt(x0, dx, q, n) ==
  IF n = 0 THEN x0 ELSE Add(FaceAt(x0, dx, q, n - 1), Mul(dx, RatPow(q, n - 1)))

Grid(c, x10, q1, x30, q3) ==
  LET f1 == [i \in c.il .. c.iu + 1 |-> FaceAt(x10, Dx, q1, i - c.il)]
      f3 == [k \in 0 .. c.ku + 1 |-> FaceAt(x30, Dz, q3, k)]
  IN  [x1f |-> f1,
       x1v |-> [i \in c.il .. c.iu |-> Mul(OneHalf, Add(f1[i], f1[i + 1]))],
       x2v |-> [j \in c.jl .. c.ju |-> Mul(R(j), Dphi)],
       x3f |-> f3,
       x3v |-> [k \in 0 .. c.ku |-> Mul(OneHalf, Add(f3[k], f3[k + 1]))]]

\* the index range the boundary function is called with
Call(m) ==
  [il |-> 0, iu |-> NX1 - 1, jl |-> 0, ju |-> NX2 - 1,
   kl |-> NGH, ku |-> NGH + 1, ngh |-> NGH, mhd |-> m]

\* mutant of GhostK: the first interior layer taken with the ghost layers
GhostK_incl == (kl - ngh) .. kl
\* the layers kl-k, k = 1 .. ngh
GhostK == (kl - ngh) .. (kl - 1)

\* mutant of pert: the ripple at a fixed amplitude
pert_fixed(x2) == Add(One, Mul(Frac(3, 10), Cos(Mul(x2, mang))))
\* line 270
pert(x2) == Add(One, Mul(dang, Cos(Mul(x2, mang))))

\* lines 307-308
GammaOf(Psi, atwd_sm, p) ==
  Mul(Div(Psi, Mul(Mul(Two, gam_add), p)),
      Sub(Sqrt(Add(One, Div(Mul(Mul(Mul(Four, gam_add), p), atwd_sm),
                            Mul(Psi, Psi)))),
          One))

\* mutant of PrimCell: the axial velocity from the perturbed Lorentz factor
PrimCell_pert(r_0, z, x2) ==
  LET rad == Mul(r_0, pert(x2))
      smfnc == SmoothStep(Div(Sub(r_0, r_jet), dr_jet))
      step == SmoothStep(Div(Sub(rad, r_jet), dr_jet))
      phang == Mul(Add(Mul(Sub(phang_jet, phang_amb), smfnc), phang_amb),
                   Div(Sub(r_0, x1min), r_jet))
      p == p_amb
      gamma_amb == Lorentz(vx_amb, vy_amb, vz_amb)
      gamma_jet == Lorentz(vx_jet, vy_jet, vz_jet)
      Bphi_const == Mul(Div(Mul(Mul(b_0, a), r_jet),
                            Add(Mul(a, a), Mul(r_jet, r_jet))), smfnc)
      smfnc_c == SmoothStep(Div(Sub(x1min, r_jet), dr_jet))
      b_phi_cen == Mul(Div(Mul(Mul(b_0, a), x1min),
                           Add(Mul(a, a), Mul(x1min, x1min))), smfnc_c)
      p_cen == p_amb
      bern_jet == Add(Mul(Add(One, Div(Mul(gam_add, p_cen), d_jet)), gamma_jet),
                      Mul(Div(One, Mul(gamma_jet, d_jet)),
                          Mul(b_phi_cen, b_phi_cen)))
      bern_amb == Mul(Add(One, Div(Mul(gam_add, p_amb), d_amb)), gamma_amb)
      bern_sm == Add(Mul(Sub(bern_jet, bern_amb), step), bern_amb)
      bern_sm_np == Add(Mul(Sub(bern_jet, bern_amb), smfnc), bern_amb)
      atwd_jet == Mul(Mul(gamma_jet, gamma_jet), Add(d_jet, Mul(gam_add, p_cen)))
      atwd_amb == Mul(Mul(gamma_amb, gamma_amb), Add(d_amb, Mul(gam_add, p_amb)))
      atwd_sm == Add(Mul(Sub(atwd_jet, atwd_amb), smfnc), atwd_amb)
      Psi == Div(Add(atwd_sm, Mul(Bphi_const, Bphi_const)), bern_sm)
      Psi_np == Div(Add(atwd_sm, Mul(Bphi_const, Bphi_const)), bern_sm_np)
      gamma == GammaOf(Psi, atwd_sm, p)
      gamma_np == GammaOf(Psi_np, atwd_sm, p)
      rg == rang(r_0)
      vz == Sqrt(Div(Sub(Mul(gamma, gamma), One),
                     Add(Add(One, Mul(SQR(rg), Exp(Div(Mul(Neg(Two), z), z_0)))),
                         Mul(phang, phang))))
  IN  [IDN |-> Div(Psi, gamma),
       IVX |-> Mul(Mul(vz, rg), Exp(Div(Neg(z), z_0))),
       IVY |-> Mul(vz, phang),
       IVZ |-> vz,
       IPR |-> p_amb]
\* lines 267-315: the primitives of one ghost cell, r_0 = r0_r_z(r, z) given
PrimCell(r_0, z, x2) ==
  LET rad == Mul(r_0, pert(x2))
      smfnc == SmoothStep(Div(Sub(r_0, r_jet), dr_jet))
      step == SmoothStep(Div(Sub(rad, r_jet), dr_jet))
      phang == Mul(Add(Mul(Sub(phang_jet, phang_amb), smfnc), phang_amb),
                   Div(Sub(r_0, x1min), r_jet))
      p == p_amb
      gamma_amb == Lorentz(vx_amb, vy_amb, vz_amb)
      gamma_jet == Lorentz(vx_jet, vy_jet, vz_jet)
      Bphi_const == Mul(Div(Mul(Mul(b_0, a), r_jet),
                            Add(Mul(a, a), Mul(r_jet, r_jet))), smfnc)
      smfnc_c == SmoothStep(Div(Sub(x1min, r_jet), dr_jet))
      b_phi_cen == Mul(Div(Mul(Mul(b_0, a), x1min),
                           Add(Mul(a, a), Mul(x1min, x1min))), smfnc_c)
      p_cen == p_amb
      bern_jet == Add(Mul(Add(One, Div(Mul(gam_add, p_cen), d_jet)), gamma_jet),
                      Mul(Div(One, Mul(gamma_jet, d_jet)),
                          Mul(b_phi_cen, b_phi_cen)))
      bern_amb == Mul(Add(One, Div(Mul(gam_add, p_amb), d_amb)), gamma_amb)
      bern_sm == Add(Mul(Sub(bern_jet, bern_amb), step), bern_amb)
      bern_sm_np == Add(Mul(Sub(bern_jet, bern_amb), smfnc), bern_amb)
      atwd_jet == Mul(Mul(gamma_jet, gamma_jet), Add(d_jet, Mul(gam_add, p_cen)))
      atwd_amb == Mul(Mul(gamma_amb, gamma_amb), Add(d_amb, Mul(gam_add, p_amb)))
      atwd_sm == Add(Mul(Sub(atwd_jet, atwd_amb), smfnc), atwd_amb)
      Psi == Div(Add(atwd_sm, Mul(Bphi_const, Bphi_const)), bern_sm)
      Psi_np == Div(Add(atwd_sm, Mul(Bphi_const, Bphi_const)), bern_sm_np)
      gamma == GammaOf(Psi, atwd_sm, p)
      gamma_np == GammaOf(Psi_np, atwd_sm, p)
      rg == rang(r_0)
      vz == Sqrt(Div(Sub(Mul(gamma_np, gamma_np), One),
                     Add(Add(One, Mul(SQR(rg), Exp(Div(Mul(Neg(Two), z), z_0)))),
                         Mul(phang, phang))))
  IN  [IDN |-> Div(Psi, gamma),
       IVX |-> Mul(Mul(vz, rg), Exp(Div(Neg(z), z_0))),
       IVY |-> Mul(vz, phang),
       IVZ |-> vz,
       IPR |-> p_amb]

\* A2 at each point of S, every point computed once
A2Table(S) == [q \in S |-> A2(q[1], q[2])]

\* line 361
B1Mirror(i) == Sub(Mul(Two, x1min), pco.x1f[i])
\* the points at which lines 363 and 366 call A2
B1Points ==
  {<<IF Lt(pco.x1f[i], x1min) THEN B1Mirror(i) ELSE pco.x1f[i], pco.x3f[k]>> :
     i \in il .. iu + 1, k \in (kl - ngh) .. kl}
\* lines 356-367: the radial face field of layer kl-k at face i; A holds the
\* values of A2
B1(A, k, i) ==
  LET rf == pco.x1f[i]
      zf == pco.x3f[kl - k]
      zf_p1 == pco.x3f[kl - k + 1]
      delz == Sub(pco.x3v[k + 1], pco.x3v[k])
  IN  IF Lt(rf, x1min)
      THEN LET mir_r == B1Mirror(i)
           IN  Div(Neg(Sub(A[<<mir_r, zf>>], A[<<mir_r, zf_p1>>])), delz)
      ELSE Div(Sub(A[<<rf, zf>>], A[<<rf, zf_p1>>]), delz)

\* lines 399-400
B3Mirror(i) == Sub(Mul(Two, pco.x1v[il + 1]), pco.x1f[i])
\* lines 401-406
B3MirrorP1(i) ==
  IF Gt(x1rat, One) THEN Mul(x1rat, B3Mirror(i))
  ELSE Sub(Add(B3Mirror(i), pco.x1f[i + 1]), pco.x1f[i])
\* the points at which lines 408 and 411 call A2
B3Points ==
  UNION {IF Lt(pco.x1f[i], x1min)
           THEN {<<B3Mirror(i), pco.x3f[k]>>, <<B3MirrorP1(i), pco.x3f[k]>>}
           ELSE {<<pco.x1f[i], pco.x3f[k]>>, <<pco.x1f[i + 1], pco.x3f[k]>>} :
         i \in il .. iu, k \in GhostK}
\* lines 394-412: the axial face field of face kl-k at cell i; A holds the
\* values of A2
B3(A, k, i) ==
  LET rf == pco.x1f[i]
      rf_p1 == pco.x1f[i + 1]
      zf == pco.x3f[kl - k]
  IN  IF Lt(rf, x1min)
      THEN LET mir_r == B3Mirror(i)
               mir_r_p1 == B3MirrorP1(i)
           IN  Div(Mul(Two, Sub(Mul(mir_r_p1, A[<<mir_r_p1, zf>>]),
                                Mul(mir_r, A[<<mir_r, zf>>]))),
                   Sub(SQR(mir_r_p1), SQR(mir_r)))
      ELSE Div(Mul(Two, Sub(Mul(rf_p1, A[<<rf_p1, zf>>]), Mul(rf, A[<<rf, zf>>]))),
               Sub(SQR(rf_p1), SQR(rf)))

\* Field::CalculateCellCenteredField over il..iu, jl..ju, klo..khi: each
\* component the mean of the two faces of the cell
CalculateCellCenteredField(bf, klo, khi) ==
  [c \in (klo .. khi) \X (jl .. ju) \X (il .. iu) |->
     [IB1 |-> Mul(OneHalf, Add(bf.x1f[c], bf.x1f[<<c[1], c[2], c[3] + 1>>])),
      IB2 |-> Mul(OneHalf, Add(bf.x2f[c], bf.x2f[<<c[1], c[2] + 1, c[3]>>])),
      IB3 |-> Mul(OneHalf, Add(bf.x3f[c], bf.x3f[<<c[1] + 1, c[2], c[3]>>]))]]

\* mutant of NearCore: the transition band left out
NearCore_inner(r) == Le(r, Sub(r_jet, dr_jet))
\* line 429
NearCore(r) == Le(r, Add(r_jet, dr_jet))

\* the parameter files of the fill: the boundary scenario, an ambient medium
\* in motion, and a jet that opens and rotates, plain and rippled
FillPins ==
  {[BasePin EXCEPT !.vz = va, !.x1min = xm] :
     va \in {Zero, Frac(1, 10)}, xm \in {Zero, Frac(1, 4)}}
  \cup {[BasePin EXCEPT !.vz = Frac(1, 10), !.x1min = Frac(1, 4), !.vxjet = One,
                        !.vyjet = OneHalf, !.dang = da] :
          da \in {Zero, Frac(3, 10)}}

\* x1f(il) of the grids: the block at the inner radial edge or one cell out
RadialStarts(c) == {Sub(x1min, Mul(R(c.ngh), Dx)), Add(x1min, Dx)}
\* x3f(0) and the ratio of the axial steps: the face kl at zero, the layer
\* kl-1 centred on zero, and a stretched axis
AxialGrids(c) ==
  {<<Neg(Mul(R(c.ngh), Dz)), One>>,
   <<Sub(Mul(OneHalf, Dz), Mul(R(c.ngh), Dz)), One>>,
   <<Neg(Mul(R(c.ngh), Dz)), Frac(3, 2)>>}

InitFill ==
  /\ \E pin \in FillPins : gl = InitUserMeshData(pin)
  /\ \E m \in BOOLEAN : call = Call(m)
  /\ \E x10 \in RadialStarts(call), ax \in AxialGrids(call) :
       pco = Grid(call, x10, x1rat, ax[1], ax[2])
  /\ prim = [c \in (0 .. ku) \X (jl .. ju) \X (il .. iu) |->
               [IDN |-> d_amb, IVX |-> vx_amb, IVY |-> vy_amb, IVZ |-> vz_amb,
                IPR |-> p_amb]]
  /\ \E s \in IF call.mhd THEN {0, 1} ELSE {0} :
       b = [x1f |-> [c \in (0 .. ku) \X (jl .. ju) \X (il .. iu + 1) |-> Zero],
            x2f |-> [c \in (0 .. ku) \X (jl .. ju + 1) \X (il .. iu) |-> Zero],
            x3f |-> [c \in (0 .. ku + 1) \X (jl .. ju) \X (il .. iu) |->
                      R(1 + s * c[2])]]
  /\ bc = <<>>
  /\ pc = "entry"
  /\ SolveIdle /\ FluxIdle /\ RefIdle

\* lines 260-322: the primitives of the ghost layers
FillPrim ==
  /\ pc = "entry"
  /\ \E r_0 \in {[q \in GhostK \X (il .. iu) |->
                    r0_r_z(pco.x1v[q[2]], pco.x3v[q[1]])]} :
       prim' = [c \in DOMAIN prim |->
                 IF c[1] \in GhostK
                 THEN PrimCell(r_0[<<c[1], c[3]>>], pco.x3v[c[1]], pco.x2v[c[2]])
                 ELSE prim[c]]
  /\ pc' = IF call.mhd THEN "prim" ELSE "done"
  /\ UNCHANGED <<gl, call, pco, b, bc, solveVars, fluxVars, refVars>>

\* lines 350-372
FillB1 ==
  /\ pc = "prim"
  /\ \E A \in {A2Table(B1Points)} :
       b' = [b EXCEPT !.x1f = [c \in DOMAIN @ |->
               IF c[1] \in GhostK THEN B1(A, kl - c[1], c[3]) ELSE @[c]]]
  /\ pc' = "b1"
  /\ UNCHANGED <<gl, call, pco, prim, bc, solveVars, fluxVars, refVars>>

\* lines 376-386
FillB2 ==
  /\ pc = "b1"
  /\ b' = [b EXCEPT !.x2f = [c \in DOMAIN @ |->
              IF c[1] \in GhostK THEN Zero ELSE @[c]]]
  /\ pc' = "b2"
  /\ UNCHANGED <<gl, call, pco, prim, bc, solveVars, fluxVars, refVars>>

\* lines 389-416
FillB3 ==
  /\ pc = "b2"
  /\ \E A \in {A2Table(B3Points)} :
       b' = [b EXCEPT !.x3f = [c \in DOMAIN @ |->
               IF c[1] \in GhostK THEN B3(A, kl - c[1], c[3]) ELSE @[c]]]
  /\ pc' = "b3"
  /\ UNCHANGED <<gl, call, pco, prim, bc, solveVars, fluxVars, refVars>>

\* lines 418-438
ReDerive ==
  /\ pc = "b3"
  /\ bc' = CalculateCellCenteredField(b, kl - ngh, ku)
  /\ prim' = [c \in DOMAIN prim |->
                IF c[1] \in GhostK /\ NearCore(pco.x1v[c[3]])
                THEN [prim[c] EXCEPT
                        !.IVX = Div(Mul(prim[c].IVZ, bc'[c].IB1), bc'[c].IB3)]
                ELSE prim[c]]
  /\ pc' = "done"
  /\ UNCHANGED <<gl, call, pco, b, solveVars, fluxVars, refVars>>

NextFill == FillPrim \/ FillB1 \/ FillB2 \/ FillB3 \/ ReDerive

SpecFill == InitFill /\ [][NextFill]_vars

GhostCells == GhostK \X (jl .. ju) \X (il .. iu)

\* the net flux through the faces of cell c, over the azimuthal width
NetFlux(c) ==
  LET kk == c[1]
      j == c[2]
      i == c[3]
  IN  Add(Mul(Sub(Mul(pco.x1f[i + 1], b.x1f[<<kk, j, i + 1>>]),
                  Mul(pco.x1f[i], b.x1f[<<kk, j, i>>])),
              Sub(pco.x3f[kk + 1], pco.x3f[kk])),
          Mul(Sub(b.x3f[<<kk + 1, j, i>>], b.x3f[<<kk, j, i>>]),
              Div(Sub(SQR(pco.x1f[i + 1]), SQR(pco.x1f[i])), Two)))
\* the rounding allowed in a net flux of zero
FluxTol == Frac(1, 100000)

\* C4 as stated: after the fill every ghost cell whose radial and axial faces
\* were all written by it, mirrored or not, has zero net magnetic flux on
\* any grid.
C4_DivFree ==
  (pc = "done" /\ call.mhd)
    => \A c \in GhostCells : c[1] + 1 \in GhostK => Le(Abs(NetFlux(c)), FluxTol)

\* the first pass run again on cell c
FirstPass(c) ==
  PrimCell(r0_r_z(pco.x1v[c[3]], pco.x3v[c[1]]), pco.x3v[c[1]], pco.x2v[c[2]])

\* c and e share the radial and the axial index
SameRZ(c, e) == c[1] = e[1] /\ c[3] = e[3]
\* the axial faces of c and e that enter bc(IB3) are the fill's own, or the
\* interior face at kl holds the same value at both
SameSource(c, e) ==
  \/ c[1] + 1 \in GhostK
  \/ b.x3f[<<kl, c[2], c[3]>>] = b.x3f[<<kl, e[2], e[3]>>]

\* C6 as stated: with dang = 0 two ghost cells that differ only in j hold
\* the same density, three velocities and pressure after the fill.
C6_AnyInterior ==
  (pc = "done" /\ dang = Zero)
    => \A c, e \in GhostCells : SameRZ(c, e) => prim[c] = prim[e]

\* C6 amended: with dang = 0 two ghost cells that differ only in j hold the
\* same density, axial and azimuthal velocity and pressure after the fill,
\* and the same radial velocity in every layer below kl-1 and, in layer
\* kl-1, wherever the interior face field b.x3f(kl, j, i) is the same at
\* the two j.
C6_SameAcrossJ ==
  (pc = "done" /\ dang = Zero)
    => \A c, e \in GhostCells :
         SameRZ(c, e)
           => /\ prim[c].IDN = prim[e].IDN
              /\ prim[c].IVY = prim[e].IVY
              /\ prim[c].IVZ = prim[e].IVZ
              /\ prim[c].IPR = prim[e].IPR
              /\ SameSource(c, e) => prim[c].IVX = prim[e].IVX
C6_Witness ==
  /\ pc = "done" /\ dang = Zero /\ call.mhd
  /\ \E c, e \in GhostCells :
       /\ SameRZ(c, e) /\ c[2] # e[2] /\ c[1] = kl - 1
       /\ NearCore(pco.x1v[c[3]]) /\ SameSource(c, e)
       /\ prim[c] = prim[e]
       /\ IsFin(prim[c].IVX) /\ prim[c].IVX # Zero /\ IsFin(prim[c].IDN)

\* C8 as stated: in the boundary scenario the derived parameters and the
\* primitives of the ghost cell at z = 0 just above the inner edge are
\* finite, its axial velocity exceeds vz_amb and its density is d_jet.
Scenario ==
  /\ d_amb = One /\ p_amb = Frac(1, 100)
  /\ vx_amb = Zero /\ vy_amb = Zero /\ vz_amb = Zero
  /\ d_jet = Frac(1, 10) /\ p_jet = Frac(1, 100)
  /\ vx_jet = Zero /\ vy_jet = Zero /\ vz_jet = R(5)
  /\ r_jet = One /\ dr_jet = Frac(1, 10)
C8_Scenario ==
  (pc = "done" /\ Scenario /\ pco.x3v[kl - 1] = Zero)
    => /\ \A n \in DOMAIN gl : IsFin(gl[n])
       /\ \A c \in GhostCells :
            (c[1] = kl - 1 /\ pco.x1f[c[3]] = x1min)
              => /\ \A n \in DOMAIN prim[c] : IsFin(prim[c][n])
                 /\ Gt(prim[c].IVZ, vz_amb)
                 /\ prim[c].IDN = d_jet

\* C9 as stated: with dang # 0 two ghost cells that differ only in j hold
\* the same three velocities after the fill.
C9_AnyInterior ==
  (pc = "done" /\ dang # Zero)
    => \A c, e \in GhostCells :
         SameRZ(c, e)
           => /\ prim[c].IVX = prim[e].IVX
              /\ prim[c].IVY = prim[e].IVY
              /\ prim[c].IVZ = prim[e].IVZ

\* C9 amended: with dang # 0 two ghost cells that differ only in j hold the
\* same axial and azimuthal velocity after the fill, and the same radial
\* velocity in every layer below kl-1 and, in layer kl-1, wherever the
\* interior face field b.x3f(kl, j, i) is the same at the two j.
C9_VelocitySameAcrossJ ==
  (pc = "done" /\ dang # Zero)
    => \A c, e \in GhostCells :
         SameRZ(c, e)
           => /\ prim[c].IVY = prim[e].IVY
              /\ prim[c].IVZ = prim[e].IVZ
              /\ SameSource(c, e) => prim[c].IVX = prim[e].IVX
C9_Witness ==
  /\ pc = "done" /\ dang # Zero /\ call.mhd
  /\ \E c, e \in GhostCells :
       /\ SameRZ(c, e) /\ c[2] # e[2] /\ SameSource(c, e)
       /\ NearCore(pco.x1v[c[3]])
       /\ prim[c].IDN # prim[e].IDN
       /\ IsFin(prim[c].IDN) /\ IsFin(prim[e].IDN)
       /\ prim[c].IVX = prim[e].IVX /\ IsFin(prim[c].IVX) /\ prim[c].IVX # Zero
       /\ prim[c].IVZ = prim[e].IVZ /\ prim[c].IVY = prim[e].IVY

\* C10: at the end of a fill with magnetic fields the radial velocity of a
\* ghost cell with x1v(i) <= r_jet + dr_jet is vz * bc(IB1) / bc(IB3) and
\* that of every other ghost cell is vz * rang(r_0) * exp(-z/z_0); vz, vy,
\* density and pressure are those of the first pass.
C10_ReDerived ==
  (pc = "done" /\ call.mhd)
    => \A c \in GhostCells :
         LET q == prim[c]
             fp == FirstPass(c)
             r == pco.x1v[c[3]]
             z == pco.x3v[c[1]]
         IN  /\ q.IVZ = fp.IVZ /\ q.IVY = fp.IVY
             /\ q.IDN = fp.IDN /\ q.IPR = fp.IPR
             /\ q.IVX = IF Le(r, Add(r_jet, dr_jet))
                          THEN Div(Mul(q.IVZ, bc[c].IB1), bc[c].IB3)
                          ELSE Mul(Mul(q.IVZ, rang(r0_r_z(r, z))),
                                   Exp(Div(Neg(z), z_0)))
C10_Witness ==
  /\ pc = "done" /\ call.mhd
  /\ \E c \in GhostCells :
       /\ Le(pco.x1v[c[3]], Add(r_jet, dr_jet))
       /\ IsFin(prim[c].IVX) /\ IsFin(FirstPass(c).IVX)
       /\ prim[c].IVX # FirstPass(c).IVX
  /\ \E c \in GhostCells :
       /\ ~Le(pco.x1v[c[3]], Add(r_jet, dr_jet))
       /\ IsFin(prim[c].IVX) /\ prim[c].IVX = FirstPass(c).IVX

\* C11: no step of JetInnerX3 changes a primitive or a face field at an
\* axial index >= kl, the axial face at kl included, nor a file-scope
\* parameter.
C11_Frame ==
  [][/\ \A c \in DOMAIN prim : c[1] >= kl => prim'[c] = prim[c]
     /\ \A c \in DOMAIN b.x1f : c[1] >= kl => b'.x1f[c] = b.x1f[c]
     /\ \A c \in DOMAIN b.x2f : c[1] >= kl => b'.x2f[c] = b.x2f[c]
     /\ \A c \in DOMAIN b.x3f : c[1] >= kl => b'.x3f[c] = b.x3f[c]
     /\ gl' = gl]_vars
C11_Witness ==
  /\ pc = "done" /\ call.mhd
  /\ b.x3f[<<kl, jl + 1, il>>] = R(2)
  /\ b.x1f[<<kl, jl, il>>] = Zero
  /\ prim[<<kl, jl, il>>].IVZ = vz_amb /\ prim[<<kl, jl, il>>].IDN = d_amb
  /\ \E c \in ((kl - ngh) .. (kl - 1)) \X (jl .. ju) \X (il .. iu) :
       /\ IsFin(b.x3f[c]) /\ b.x3f[c] # b.x3f[<<kl, c[2], c[3]>>]
       /\ IsFin(b.x1f[c]) /\ b.x1f[c] # Zero
       /\ IsFin(prim[c].IVZ) /\ prim[c].IVZ # vz_amb
====
